---- MODULE Spec2Model ----
(***************************************************************************)
(* StudyQuest backend: the boss-battle quiz session of                     *)
(* app/routers/bossbattle.py, the reflection routes of                     *)
(* app/routers/text_ai.py and the dashboard of app/routers/home.py as a    *)
(* state machine.  One action per route handler; each action is the whole  *)
(* handler, _end_session included.                                         *)
(***************************************************************************)
EXTENDS Integers, Sequences, FiniteSets, TLC

\* ------------------------------------------------------------------ bounds
\* Clock resolution: datetime.utcnow() differences are fractional seconds,
\* so the clock counts ticks of 1/TicksPerSecond second.
TicksPerSecond == 1
\* Number of sessions that may be started in one behaviour.
MaxStarts == 2
\* Largest number of items in a chat-completion answer.
MaxApiQuestions == 1

\* ------------------------------------------------------- program constants
DefaultTimeLimit == 180
StartLives == 3
XpPerPoint == 20
MaxChoicesKept == 4

\* Optional values: <<>> is None, <<v>> is the value v.
Opt(S) == {<<>>} \cup {<<v>> : v \in S}

Min(a, b) == IF a < b THEN a ELSE b

\* ----------------------------------------------------------- the user table
Names == {"alice", "bob"}

\* ------------------------------------------------------------ question bank
_QUESTIONS ==
  << [question |-> "binary search", choices |-> 4, answer_idx |-> 1],
     [question |-> "idempotent",    choices |-> 4, answer_idx |-> 1],
     [question |-> "SQL",           choices |-> 4, answer_idx |-> 1],
     [question |-> "FIFO",          choices |-> 4, answer_idx |-> 1],
     [question |-> "Not Found",     choices |-> 4, answer_idx |-> 2] >>

Take(s, n) == SubSeq(s, 1, Min(n, Len(s)))

\* One element of the "questions" array of the chat-completion answer.
\*   isdict     - the element is a JSON object
\*   question   - its "question" is truthy
\*   choices    - number of entries of its "choices" list (0: not a list)
\*   answer_idx - <<>> when int(answer_idx) raises, else <<the int>>
ApiItems ==
  { [isdict |-> FALSE, question |-> FALSE, choices |-> 0, answer_idx |-> <<>>],
    [isdict |-> TRUE,  question |-> TRUE,  choices |-> 1, answer_idx |-> <<0>>],
    [isdict |-> TRUE,  question |-> TRUE,  choices |-> 5, answer_idx |-> <<>>] }

RECURSIVE SeqsUpTo(_, _)
SeqsUpTo(S, n) ==
  IF n = 0 THEN {<<>>}
  ELSE LET shorter == SeqsUpTo(S, n - 1)
       IN  shorter \cup {Append(s, x) : s \in {t \in shorter : Len(t) = n - 1}, x \in S}

\* What the third-party call can do: no client configured, an exception
\* (network error, unparsable JSON), or a parsed "questions" array.
ApiOutcomes(client) ==
  IF ~client THEN { [kind |-> "no_client", questions |-> <<>>] }
  ELSE { [kind |-> "error", questions |-> <<>>] }
       \cup { [kind |-> "json", questions |-> qs] : qs \in SeqsUpTo(ApiItems, MaxApiQuestions) }

\* Basic validation loop of _generate_ai_questions (lines 90-104).
RECURSIVE Clean(_, _, _)
Clean(questions, total, cleaned) ==
  IF questions = <<>> THEN cleaned
  ELSE LET q == Head(questions)
           keep == q.isdict /\ q.question /\ q.choices >= 2
           next == IF keep
                   THEN Append(cleaned,
                          [question |-> "ai",
                           choices |-> Min(q.choices, MaxChoicesKept),
                           answer_idx |-> IF q.answer_idx = <<>> THEN 0 ELSE q.answer_idx[1]])
                   ELSE cleaned
       IN  IF Len(next) >= total THEN next
           ELSE Clean(Tail(questions), total, next)

_generate_ai_questions(total, api) ==
  IF api.kind = "no_client" THEN Take(_QUESTIONS, total)
  ELSE IF api.kind = "error" THEN Take(_QUESTIONS, total)
  ELSE LET cleaned == Clean(api.questions, total, <<>>)
       IN  IF cleaned # <<>> THEN Take(cleaned, total)
           ELSE Take(_QUESTIONS, total)

\* --------------------------------------------------------------------- state
VARIABLES
  ai_client,        \* whether the module-level OpenAI client exists (line 25)
  total_xp,         \* User.total_xp of every row of the User table
  ACTIVE_SESSIONS,  \* _ACTIVE_SESSIONS: username -> session dict
  battles,          \* BossBattle table, in insertion order
  now,              \* datetime.utcnow(), in ticks
  started,          \* sessions started so far, per username
  resp,             \* the response of the last request
  reflections,      \* TextAIReflection table, in insertion order
  progress,         \* Progress table: username -> datetimes of the study sessions
  calls             \* forfeit requests in flight in the thread pool

vars == <<ai_client, total_xp, ACTIVE_SESSIONS, battles, now, started, resp,
          reflections, progress, calls>>

\* The tables and threads the boss-battle handlers running alone never touch.
elsewhere == <<reflections, progress, calls>>

Statuses == {"completed", "out_of_lives", "timeout", "forfeit"}

RECURSIVE SumOver(_, _)
SumOver(f, S) ==
  IF S = {} THEN 0
  ELSE LET x == CHOOSE y \in S : TRUE IN f[x] + SumOver(f, S \ {x})

TotalStarted == SumOver(started, DOMAIN started)

\* ------------------------------------------------------------------ helpers
\* faulty variant: the lookup of the user row is skipped
AnyUserExists(username) == TRUE

_ensure_user_exists(username) == username \in DOMAIN total_xp

HasSession(S, user) == user \in DOMAIN S

Put(S, user, sess) == [u \in DOMAIN S \cup {user} |-> IF u = user THEN sess ELSE S[u]]

Pop(S, user) == [u \in DOMAIN S \ {user} |-> S[u]]

\* remaining = max(0, int(time_limit_seconds - elapsed)), elapsed fractional
_time_remaining(sess, t) ==
  LET left == sess.time_limit_seconds * TicksPerSecond - (t - sess.started_at)
  IN  IF left <= 0 THEN 0 ELSE left \div TicksPerSecond

\* faulty variant: the reward is not 20 XP per point
XpRewardHalved(sess) == sess.score * (XpPerPoint \div 2)

XpReward(sess) == sess.score * XpPerPoint

Error(op, user, code, detail) ==
  [op |-> op, user |-> user, code |-> code,
   body |-> [kind |-> "error", detail |-> detail]]

\* ------------------------------------------------------------ _end_session
\* The BossBattle row of lines 162-170: the columns user, score and xp_reward
\* (id, date, total_questions, difficulty and completed left out).
BattleRecord(user, sess) ==
  [user |-> user, score |-> sess.score, xp_reward |-> XpReward(sess)]

\* user_obj.total_xp = (user_obj.total_xp or 0) + xp_reward, if the row exists
Credit(xp, user, xp_reward) ==
  IF user \in DOMAIN xp THEN [xp EXCEPT ![user] = @ + xp_reward] ELSE xp

\* faulty variant: the row is flushed although the commit raises
PersistAlways(rows, record, commit_ok) == Append(rows, record)

\* db.add(record); db.commit(): the row is stored only if the commit succeeds
Persist(rows, record, commit_ok) == IF commit_ok THEN Append(rows, record) ELSE rows

\* faulty variant: the session is left in the map
NoDiscard(S, user) == S

\* _ACTIVE_SESSIONS.pop(user, None)
Discard(S, user) == Pop(S, user)

EndedBody(status, sess) ==
  [kind |-> "ended", status |-> status, score |-> sess.score,
   xp_reward |-> XpReward(sess), total_questions |-> sess.total_questions,
   lives_remaining |-> sess.lives, ended |-> TRUE]

\* _end_session(user, status), called by handler op with the session map S
\* as the handler left it.  commit_ok = FALSE: db.commit() raises, the
\* exception leaves the function before line 176 and the request fails.
_end_session(op, user, status, S, commit_ok) ==
  IF ~HasSession(S, user)
  THEN /\ ACTIVE_SESSIONS' = S
       /\ resp' = [op |-> op, user |-> user, code |-> 200,
                   body |-> [kind |-> "closed"]]
       /\ UNCHANGED <<total_xp, battles>>
  ELSE IF commit_ok
  THEN /\ total_xp' = Credit(total_xp, user, XpReward(S[user]))
       /\ battles' = Persist(battles, BattleRecord(user, S[user]), commit_ok)
       /\ ACTIVE_SESSIONS' = Discard(S, user)
       /\ resp' = [op |-> op, user |-> user, code |-> 200,
                   body |-> EndedBody(status, S[user])]
  ELSE /\ ACTIVE_SESSIONS' = S
       /\ resp' = Error(op, user, 500, "commit failed")
       /\ battles' = Persist(battles, BattleRecord(user, S[user]), commit_ok)
       /\ UNCHANGED total_xp

\* ------------------------------------------------------------- POST /start
Difficulties == Opt({""})
TotalInputs == Opt({0, 1, 6})
LimitInputs == Opt({0, 1})

\* total = min(total_questions, len(_QUESTIONS)) if total_questions else len(_QUESTIONS)
TotalFor(total_questions) ==
  IF total_questions # 0 THEN Min(total_questions, Len(_QUESTIONS)) ELSE Len(_QUESTIONS)

\* x or default
OrElse(x, falsy, default) == IF x = <<>> \/ x = <<falsy>> THEN default ELSE x[1]

NewSession(difficulty, time_limit_seconds, total, questions, t) ==
  [difficulty |-> OrElse(difficulty, "", "medium"),
   started_at |-> t,
   time_limit_seconds |-> OrElse(time_limit_seconds, 0, DefaultTimeLimit),
   lives |-> StartLives,
   score |-> 0,
   index |-> 0,
   total_questions |-> total,
   questions |-> questions]

\* faulty variant: the check for a running session is missing
NoConflict(S, user) == FALSE

\* The check of line 214.
Conflict(S, user) == HasSession(S, user)

StartOutcome(user, total_questions) ==
  IF ~_ensure_user_exists(user) THEN 404
  ELSE IF total_questions = <<>> THEN 500
  ELSE IF total_questions[1] < 1 THEN 400
  ELSE IF Conflict(ACTIVE_SESSIONS, user) THEN 409
  ELSE 200

StartDetail(code) ==
  IF code = 404 THEN "User not found."
  ELSE IF code = 400 THEN "total_questions must be >= 1"
  ELSE IF code = 409 THEN "An active boss battle already exists."
  ELSE "TypeError"

start_boss_battle(user, difficulty, total_questions, time_limit_seconds, api) ==
  LET code == StartOutcome(user, total_questions) IN
  /\ code = 200 => TotalStarted < MaxStarts
  /\ IF code # 200
     THEN /\ resp' = Error("start", user, code, "rejected")
          /\ UNCHANGED <<ai_client, total_xp, ACTIVE_SESSIONS, battles, now, started>>
     ELSE LET total == TotalFor(total_questions[1])
              questions == _generate_ai_questions(total, api)
          IN  /\ ACTIVE_SESSIONS' =
                   Put(ACTIVE_SESSIONS, user,
                       NewSession(difficulty, time_limit_seconds, total, questions, now))
              /\ started' = [started EXCEPT ![user] = @ + 1]
              /\ resp' = [op |-> "start", user |-> user, code |-> 200,
                          body |-> [kind |-> "started",
                                    timer_seconds |-> OrElse(time_limit_seconds, 0, DefaultTimeLimit),
                                    lives |-> StartLives, number |-> 1, total |-> total,
                                    question |-> questions[1].question]]
              /\ UNCHANGED <<ai_client, total_xp, battles, now>>

\* ------------------------------------------------------------ GET /question
QuestionBody(sess, t) ==
  [kind |-> "question", question |-> sess.questions[sess.index + 1].question,
   number |-> sess.index + 1, total |-> sess.total_questions, lives |-> sess.lives,
   timer_remaining |-> _time_remaining(sess, t), score |-> sess.score]

get_current_question(user, commit_ok) ==
  /\ UNCHANGED <<ai_client, now, started>>
  /\ IF ~HasSession(ACTIVE_SESSIONS, user)
     THEN /\ resp' = Error("question", user, 404, "No active boss battle")
          /\ UNCHANGED <<total_xp, ACTIVE_SESSIONS, battles>>
     ELSE LET sess == ACTIVE_SESSIONS[user] IN
          IF _time_remaining(sess, now) = 0
          THEN _end_session("question", user, "timeout", ACTIVE_SESSIONS, commit_ok)
          ELSE IF sess.lives <= 0
          THEN _end_session("question", user, "out_of_lives", ACTIVE_SESSIONS, commit_ok)
          ELSE IF sess.index >= sess.total_questions
          THEN _end_session("question", user, "completed", ACTIVE_SESSIONS, commit_ok)
          ELSE IF sess.index >= Len(sess.questions)
          THEN /\ resp' = Error("question", user, 500, "IndexError")
               /\ UNCHANGED <<total_xp, ACTIVE_SESSIONS, battles>>
          ELSE /\ resp' = [op |-> "question", user |-> user, code |-> 200,
                           body |-> QuestionBody(sess, now)]
               /\ UNCHANGED <<total_xp, ACTIVE_SESSIONS, battles>>

\* ------------------------------------------------------------- POST /answer
Choices == {0, 1, 2}

\* is_correct = choice == correct_idx, for a session whose current question exists
IsCorrect(sess, choice) == choice = sess.questions[sess.index + 1].answer_idx

\* faulty variant: a wrong answer costs a life and the question is not passed
ScoredNoAdvance(sess, choice) ==
  [sess EXCEPT !.score = IF IsCorrect(sess, choice) THEN @ + 1 ELSE @,
               !.lives = IF IsCorrect(sess, choice) THEN @ ELSE @ - 1,
               !.index = IF IsCorrect(sess, choice) THEN @ + 1 ELSE @]

\* Lines 317-324: the session dict after the answer is scored.
Scored(sess, choice) ==
  [sess EXCEPT !.score = IF IsCorrect(sess, choice) THEN @ + 1 ELSE @,
               !.lives = IF IsCorrect(sess, choice) THEN @ ELSE @ - 1,
               !.index = @ + 1]

AnswerBody(sess, is_correct, t) ==
  [kind |-> "answer", correct |-> is_correct, lives |-> sess.lives,
   score |-> sess.score, timer_remaining |-> _time_remaining(sess, t),
   number |-> sess.index + 1, total |-> sess.total_questions,
   question |-> sess.questions[sess.index + 1].question]

\* username and choice are what lines 278-296 extract from the request:
\* <<>> when the field is missing.
submit_answer(username, choice, commit_ok) ==
  /\ UNCHANGED <<ai_client, now, started>>
  /\ IF username = <<>>
     THEN /\ resp' = Error("answer", "", 400, "user is required.")
          /\ UNCHANGED <<total_xp, ACTIVE_SESSIONS, battles>>
     ELSE IF choice = <<>>
     THEN /\ resp' = Error("answer", username[1], 400, "choice_idx is required.")
          /\ UNCHANGED <<total_xp, ACTIVE_SESSIONS, battles>>
     ELSE IF ~HasSession(ACTIVE_SESSIONS, username[1])
     THEN /\ resp' = Error("answer", username[1], 404, "No active boss battle")
          /\ UNCHANGED <<total_xp, ACTIVE_SESSIONS, battles>>
     ELSE LET user == username[1]
              sess == ACTIVE_SESSIONS[user]
          IN
          IF _time_remaining(sess, now) = 0
          THEN _end_session("answer", user, "timeout", ACTIVE_SESSIONS, commit_ok)
          ELSE IF sess.index >= sess.total_questions
          THEN _end_session("answer", user, "completed", ACTIVE_SESSIONS, commit_ok)
          ELSE IF sess.index >= Len(sess.questions)
          THEN /\ resp' = Error("answer", user, 500, "IndexError")
               /\ UNCHANGED <<total_xp, ACTIVE_SESSIONS, battles>>
          ELSE LET after == Scored(sess, choice[1])
                   S == Put(ACTIVE_SESSIONS, user, after)
               IN
               IF after.lives <= 0
               THEN _end_session("answer", user, "out_of_lives", S, commit_ok)
               ELSE IF after.index >= after.total_questions
               THEN _end_session("answer", user, "completed", S, commit_ok)
               ELSE IF after.index >= Len(after.questions)
               THEN \* next_q raises after the dict was updated in place
                    /\ ACTIVE_SESSIONS' = S
                    /\ resp' = Error("answer", user, 500, "IndexError")
                    /\ UNCHANGED <<total_xp, battles>>
               ELSE /\ ACTIVE_SESSIONS' = S
                    /\ resp' = [op |-> "answer", user |-> user, code |-> 200,
                                body |-> AnswerBody(after, IsCorrect(sess, choice[1]), now)]
                    /\ UNCHANGED <<total_xp, battles>>

\* -------------------------------------------------------------- GET /status
StatusBody(sess, remaining) ==
  [kind |-> "status", lives |-> sess.lives, score |-> sess.score,
   question_number |-> Min(sess.index + 1, sess.total_questions),
   total_questions |-> sess.total_questions, timer_remaining |-> remaining,
   completed |-> FALSE]

get_status(user, commit_ok) ==
  /\ UNCHANGED <<ai_client, now, started>>
  /\ IF ~HasSession(ACTIVE_SESSIONS, user)
     THEN /\ resp' = Error("status", user, 404, "No active boss battle")
          /\ UNCHANGED <<total_xp, ACTIVE_SESSIONS, battles>>
     ELSE LET sess == ACTIVE_SESSIONS[user]
              remaining == _time_remaining(sess, now)
          IN
          IF remaining = 0
          THEN _end_session("status", user, "timeout", ACTIVE_SESSIONS, commit_ok)
          ELSE /\ resp' = [op |-> "status", user |-> user, code |-> 200,
                           body |-> StatusBody(sess, remaining)]
               /\ UNCHANGED <<total_xp, ACTIVE_SESSIONS, battles>>

\* ------------------------------------------------------------ POST /forfeit
forfeit(user, commit_ok) ==
  /\ UNCHANGED <<ai_client, now, started>>
  /\ IF ~HasSession(ACTIVE_SESSIONS, user)
     THEN /\ resp' = Error("forfeit", user, 404, "No active boss battle")
          /\ UNCHANGED <<total_xp, ACTIVE_SESSIONS, battles>>
     ELSE _end_session("forfeit", user, "forfeit", ACTIVE_SESSIONS, commit_ok)

\* =============================================== app/routers/text_ai.py
\* Largest number of rows of the TextAIReflection table.
MaxReflections == 1

\* xp_reward of the heuristic fallback (line 124), default of
\* data.get("xp_reward", 10) and of a failed int() (lines 87-91), and the
\* clamp of line 94.
MockXp == 10
DefaultXp == 10
MinXp == 5
MaxXp == 25

Max(a, b) == IF a > b THEN a ELSE b

\* client (text_ai.py line 34) is built from the same OpenAI import and the
\* same OPENAI_API_KEY as ai_client of bossbattle.py.
client == ai_client

\* int(x) for a JSON number x given in tenths: truncation toward zero.
PyInt(tenths) == IF tenths >= 0 THEN tenths \div 10 ELSE -((-tenths) \div 10)

\* JSON numbers the API may give as xp_reward, in tenths: -1.5, 4.9, 25.9, 26.
XpTenths == {-15, 49, 259, 260}

\* data["xp_reward"] of the chat-completion answer:
\*   missing - the key is absent
\*   number  - a JSON number, v in tenths
\*   junk    - int() raises ValueError or TypeError (null, "abc", a list)
\*   huge    - int() raises OverflowError (1e999, parsed as inf)
XpFields ==
  { [t |-> k, v |-> 0] : k \in {"missing", "junk", "huge"} }
    \cup { [t |-> "number", v |-> x] : x \in XpTenths }

\* data["feedback"] and data["summary"] of the chat-completion answer:
\*   missing - absent, null or "" (falsy)
\*   text    - non-empty strings
\*   object  - "feedback" is a non-empty JSON object, not a string
TextFields == {"missing", "text", "object"}

\* What client.chat.completions.create and json.loads can do (lines 70-80):
\* no client configured, an exception (network error, unparsable content),
\* JSON that is not an object, or a JSON object.
FeedbackOutcomes(c) ==
  IF ~c THEN { [kind |-> "no_client", texts |-> "missing", xp |-> [t |-> "missing", v |-> 0]] }
  ELSE { [kind |-> k, texts |-> "missing", xp |-> [t |-> "missing", v |-> 0]] :
           k \in {"error", "not_object"} }
       \cup { [kind |-> "json", texts |-> f, xp |-> x] : f \in TextFields, x \in XpFields }

_mock_ai_feedback ==
  [feedback |-> "heuristic", xp_reward |-> MockXp]

\* faulty variant: the clamp of line 94 is missing
UnclampedXp(xp) ==
  IF xp.t = "missing" THEN DefaultXp
  ELSE IF xp.t = "junk" THEN DefaultXp
  ELSE PyInt(xp.v)

\* Lines 87-94: xp_reward of a JSON object whose int() does not overflow.
ClampedXp(xp) ==
  LET raw == IF xp.t = "missing" THEN DefaultXp
             ELSE IF xp.t = "junk" THEN DefaultXp
             ELSE PyInt(xp.v)
  IN  Max(MinXp, Min(MaxXp, raw))

generate_ai_feedback(api) ==
  IF api.kind = "no_client" THEN _mock_ai_feedback
  ELSE IF api.kind \in {"error", "not_object"} THEN _mock_ai_feedback
  ELSE IF api.xp.t = "huge" THEN _mock_ai_feedback
  ELSE [feedback |-> IF api.texts = "missing" THEN "default"
                     ELSE IF api.texts = "text" THEN "api"
                     ELSE "object",
        xp_reward |-> ClampedXp(api.xp)]

\* A TextAIReflection row: the columns id, user, ai_feedback and xp_reward
\* (date, reflection_text and summary left out).
RECURSIVE MaxId(_)
MaxId(rows) == IF rows = << >> THEN 0 ELSE Max(Head(rows).id, MaxId(Tail(rows)))

ReflectionRow(rows, username, ai_result) ==
  [id |-> MaxId(rows) + 1, user |-> username,
   ai_feedback |-> ai_result.feedback, xp_reward |-> ai_result.xp_reward]

\* response_model=TextAIReflectionRead: ai_feedback must be a string or None.
ReadValid(row) == row.ai_feedback # "object"

\* reflection_text given by the client: missing, empty or a text.
TextInputs == Opt({"", "studied"})

\* faulty variant: the user is looked up only after the row was committed
AddReflectionLateLookup(username, reflection_text, api, stored) ==
  /\ UNCHANGED <<ai_client, total_xp, ACTIVE_SESSIONS, battles, now, started, progress, calls>>
  /\ IF username = <<>>
     THEN /\ resp' = Error("add_reflection", "", 400, "user is required.")
          /\ UNCHANGED reflections
     ELSE IF reflection_text = <<>> \/ reflection_text = <<"">>
     THEN /\ resp' = Error("add_reflection", username[1], 400, "reflection_text is required.")
          /\ UNCHANGED reflections
     ELSE LET row == ReflectionRow(reflections, username[1], generate_ai_feedback(api)) IN
          /\ Len(reflections) < MaxReflections
          /\ reflections' = IF ReadValid(row) \/ stored THEN Append(reflections, row) ELSE reflections
          /\ resp' = IF username[1] \notin DOMAIN total_xp
                     THEN Error("add_reflection", username[1], 404, "User not found.")
                     ELSE IF ReadValid(row)
                     THEN [op |-> "add_reflection", user |-> username[1], code |-> 200,
                           body |-> [kind |-> "reflection", row |-> row]]
                     ELSE Error("add_reflection", username[1], 500, "ai_feedback is not a string")

\* POST /text-ai/.  stored: whether a row whose ai_feedback is not a string
\* gets into the table before the request fails (the table model is not part
\* of this file: the insert may raise, or the row is stored and the response
\* validation raises).
add_reflection(username, reflection_text, api, stored) ==
  /\ UNCHANGED <<ai_client, total_xp, ACTIVE_SESSIONS, battles, now, started, progress, calls>>
  /\ IF username = <<>>
     THEN /\ resp' = Error("add_reflection", "", 400, "user is required.")
          /\ UNCHANGED reflections
     ELSE IF reflection_text = <<>> \/ reflection_text = <<"">>
     THEN /\ resp' = Error("add_reflection", username[1], 400, "reflection_text is required.")
          /\ UNCHANGED reflections
     ELSE IF username[1] \notin DOMAIN total_xp
     THEN /\ resp' = Error("add_reflection", username[1], 404, "User not found.")
          /\ UNCHANGED reflections
     ELSE LET row == ReflectionRow(reflections, username[1], generate_ai_feedback(api)) IN
          /\ Len(reflections) < MaxReflections
          /\ IF ReadValid(row)
             THEN /\ reflections' = Append(reflections, row)
                  /\ resp' = [op |-> "add_reflection", user |-> username[1], code |-> 200,
                              body |-> [kind |-> "reflection", row |-> row]]
             ELSE /\ reflections' = IF stored THEN Append(reflections, row) ELSE reflections
                  /\ resp' = Error("add_reflection", username[1], 500, "ai_feedback is not a string")

RowsOf(rows, user) == SelectSeq(rows, LAMBDA r : r.user = user)

\* GET /text-ai/?user=
list_reflections(user) ==
  /\ UNCHANGED <<ai_client, total_xp, ACTIVE_SESSIONS, battles, now, started, progress, calls>>
  /\ UNCHANGED reflections
  /\ IF user \notin DOMAIN total_xp
     THEN resp' = Error("list_reflections", user, 404, "User not found.")
     ELSE IF RowsOf(reflections, user) = << >>
     THEN resp' = Error("list_reflections", user, 404, "No reflections found for this user.")
     ELSE resp' = [op |-> "list_reflections", user |-> user, code |-> 200,
                   body |-> [kind |-> "reflections", rows |-> RowsOf(reflections, user)]]

\* session.get(TextAIReflection, reflection_id)
RowsWithId(rows, reflection_id) == SelectSeq(rows, LAMBDA r : r.id = reflection_id)

\* GET /text-ai/{reflection_id}
get_reflection(reflection_id) ==
  /\ UNCHANGED <<ai_client, total_xp, ACTIVE_SESSIONS, battles, now, started, progress, calls>>
  /\ UNCHANGED reflections
  /\ IF RowsWithId(reflections, reflection_id) = << >>
     THEN resp' = Error("get_reflection", "", 404, "Reflection not found.")
     ELSE LET row == RowsWithId(reflections, reflection_id)[1] IN
          IF ReadValid(row)
          THEN resp' = [op |-> "get_reflection", user |-> row.user, code |-> 200,
                        body |-> [kind |-> "reflection", row |-> row]]
          ELSE resp' = Error("get_reflection", row.user, 500, "ai_feedback is not a string")

\* DELETE /text-ai/{reflection_id}
delete_reflection(reflection_id) ==
  /\ UNCHANGED <<ai_client, total_xp, ACTIVE_SESSIONS, battles, now, started, progress, calls>>
  /\ IF RowsWithId(reflections, reflection_id) = << >>
     THEN /\ resp' = Error("delete_reflection", "", 404, "Reflection not found.")
          /\ UNCHANGED reflections
     ELSE /\ reflections' = SelectSeq(reflections, LAMBDA r : r.id # reflection_id)
          /\ resp' = [op |-> "delete_reflection", user |-> RowsWithId(reflections, reflection_id)[1].user,
                      code |-> 200, body |-> [kind |-> "deleted", id |-> reflection_id]]

ApiKinds == {"no_client", "error", "not_object", "json"}

XpKinds == {"missing", "number", "junk", "huge"}

\* Every request of the reflection routes, with API outcomes of the given
\* kinds whose xp_reward is of the given kinds.
ReflectionRequests(kinds, xps) ==
  \/ \E username \in Opt(Names), reflection_text \in TextInputs :
        IF username = <<>> \/ reflection_text \in {<<>>, <<"">>} \/ username[1] \notin DOMAIN total_xp
        THEN add_reflection(username, reflection_text,
                            [kind |-> "no_client", texts |-> "missing", xp |-> [t |-> "missing", v |-> 0]],
                            FALSE)
        ELSE \E api \in {o \in FeedbackOutcomes(client) : o.kind \in kinds /\ o.xp.t \in xps},
                stored \in BOOLEAN :
                add_reflection(username, reflection_text, api, stored)
  \/ \E user \in Names : list_reflections(user)
  \/ \E reflection_id \in 1..(MaxReflections + 1) : get_reflection(reflection_id)
  \/ \E reflection_id \in 1..(MaxReflections + 1) : delete_reflection(reflection_id)

\* ================================== forfeit requests served concurrently
\* forfeit is a plain def: the server runs each call on a worker thread, and
\* _ACTIVE_SESSIONS is shared without a lock.  A call in flight is a record
\*   id   - the worker thread
\*   user - the query parameter
\*   pc   - the line the thread is about to run
\*   sess - the session dict read at line 150
\*   xp   - user_obj.total_xp read at line 158
\* Largest number of forfeit calls in flight.
MaxCalls == 2

Threads == 1..MaxCalls

NoSess == [none |-> TRUE]

\* Line 367: _ = _get_session(user)
ForfeitGet(id, user) ==
  /\ \A c \in calls : c.id # id
  /\ IF ~HasSession(ACTIVE_SESSIONS, user)
     THEN /\ resp' = Error("forfeit", user, 404, "No active boss battle")
          /\ UNCHANGED calls
     ELSE /\ calls' = calls \cup {[id |-> id, user |-> user, pc |-> "read", sess |-> NoSess, xp |-> 0]}
          /\ UNCHANGED resp
  /\ UNCHANGED <<ai_client, total_xp, ACTIVE_SESSIONS, battles, now, started, reflections, progress>>

\* Lines 150-155: sess = _ACTIVE_SESSIONS.get(user); a missing session ends
\* the call with "Session closed."
EndRead(c) ==
  /\ c.pc = "read"
  /\ IF ~HasSession(ACTIVE_SESSIONS, c.user)
     THEN /\ calls' = calls \ {c}
          /\ resp' = [op |-> "forfeit", user |-> c.user, code |-> 200, body |-> [kind |-> "closed"]]
     ELSE /\ calls' = (calls \ {c}) \cup {[c EXCEPT !.pc = "select", !.sess = ACTIVE_SESSIONS[c.user]]}
          /\ UNCHANGED resp
  /\ UNCHANGED <<ai_client, total_xp, ACTIVE_SESSIONS, battles, now, started, reflections, progress>>

\* Line 158: the User row is loaded into the thread's own database session.
EndSelect(c) ==
  /\ c.pc = "select"
  /\ calls' = (calls \ {c}) \cup {[c EXCEPT !.pc = "commit", !.xp = total_xp[c.user]]}
  /\ UNCHANGED <<ai_client, total_xp, ACTIVE_SESSIONS, battles, now, started, resp, reflections, progress>>

\* Lines 160-174: total_xp of the loaded row plus xp_reward is written and the
\* BossBattle row inserted.
EndCommit(c) ==
  /\ c.pc = "commit"
  /\ total_xp' = [total_xp EXCEPT ![c.user] = c.xp + XpReward(c.sess)]
  /\ battles' = Persist(battles, BattleRecord(c.user, c.sess), TRUE)
  /\ calls' = (calls \ {c}) \cup {[c EXCEPT !.pc = "pop"]}
  /\ UNCHANGED <<ai_client, ACTIVE_SESSIONS, now, started, resp, reflections, progress>>

\* Lines 176-185: the result is built, the session popped and the call returns.
EndPop(c) ==
  /\ c.pc = "pop"
  /\ ACTIVE_SESSIONS' = Discard(ACTIVE_SESSIONS, c.user)
  /\ resp' = [op |-> "forfeit", user |-> c.user, code |-> 200, body |-> EndedBody("forfeit", c.sess)]
  /\ calls' = calls \ {c}
  /\ UNCHANGED <<ai_client, total_xp, battles, now, started, reflections, progress>>

\* ================================================== app/routers/home.py
\* Progress.date is a datetime: it counts slots, SlotsPerDay of them a day.
SlotsPerDay == 2
\* Latest datetime of a study session.
MaxSlot == 7
\* Largest number of Progress rows of a user.
MaxSessions == 3

\* Thresholds of get_motivation_message (lines 33 and 35).
NiceBelow == 3
AwesomeBelow == 7
\* Number of sessions listed as recent (line 110).
RecentShown == 3

\* A Progress row: the columns date and xp_gained.
ProgressRows == { [date |-> t, xp_gained |-> 5] : t \in 0..MaxSlot }

\* datetime.date(): the calendar day of a datetime
DateOf(t) == t \div SlotsPerDay

\* faulty variant: the datetimes are compared, not their calendar days
SessionSlots(sessions) == { sessions[i].date : i \in 1..Len(sessions) }

\* {s.date.date() for s in sessions}
SessionDays(sessions) == { DateOf(sessions[i].date) : i \in 1..Len(sessions) }

\* sorted(...) of a set of days
RECURSIVE Sorted(_)
Sorted(S) ==
  IF S = {} THEN << >>
  ELSE LET m == CHOOSE x \in S : \A y \in S : x <= y
       IN  <<m>> \o Sorted(S \ {m})

\* Lines 21-25 with i counted from 1: for i in range(len(dates) - 1, 0, -1)
RECURSIVE StreakLoop(_, _, _)
StreakLoop(dates, i, streak) ==
  IF i < 2 THEN streak
  ELSE IF dates[i] - dates[i - 1] = 1 THEN StreakLoop(dates, i - 1, streak + 1)
  ELSE streak

calculate_streak(sessions) ==
  IF sessions = << >> THEN 0
  ELSE LET dates == Sorted(SessionDays(sessions))
       IN  StreakLoop(dates, Len(dates), 1)

get_motivation_message(streak) ==
  IF streak = 0 THEN "beginner"
  ELSE IF streak < NiceBelow THEN "nice start"
  ELSE IF streak < AwesomeBelow THEN "awesome"
  ELSE "unstoppable"

\* sessions.sort(key=lambda x: x.date, reverse=True): a stable sort
RECURSIVE InsertByDate(_, _)
InsertByDate(sorted, row) ==
  IF sorted = << >> THEN <<row>>
  ELSE IF Head(sorted).date >= row.date THEN <<Head(sorted)>> \o InsertByDate(Tail(sorted), row)
  ELSE <<row>> \o sorted

RECURSIVE SortNewestFirst(_)
SortNewestFirst(rows) ==
  IF rows = << >> THEN << >>
  ELSE InsertByDate(SortNewestFirst(SubSeq(rows, 1, Len(rows) - 1)), rows[Len(rows)])

RECURSIVE SumXpGained(_)
SumXpGained(rows) ==
  IF rows = << >> THEN 0 ELSE Head(rows).xp_gained + SumXpGained(Tail(rows))

\* GET /home/dashboard?user=
get_dashboard(user) ==
  /\ UNCHANGED <<ai_client, total_xp, ACTIVE_SESSIONS, battles, now, started,
                 reflections, progress, calls>>
  /\ IF user \notin DOMAIN total_xp
     THEN resp' = Error("dashboard", user, 404, "User not found.")
     ELSE IF progress[user] = << >>
     THEN resp' = [op |-> "dashboard", user |-> user, code |-> 200,
                   body |-> [kind |-> "dashboard", total_xp |-> total_xp[user],
                             total_sessions |-> 0, current_streak_days |-> 0,
                             motivation |-> "first quest", recent |-> << >>]]
     ELSE LET sessions == SortNewestFirst(progress[user])
              streak == calculate_streak(sessions)
          IN  resp' = [op |-> "dashboard", user |-> user, code |-> 200,
                       body |-> [kind |-> "dashboard",
                                 total_xp |-> IF total_xp[user] # 0 THEN total_xp[user]
                                              ELSE SumXpGained(sessions),
                                 total_sessions |-> Len(sessions),
                                 current_streak_days |-> streak,
                                 motivation |-> get_motivation_message(streak),
                                 recent |-> [i \in 1..Min(RecentShown, Len(sessions)) |->
                                               DateOf(sessions[i].date)]]]

\* -------------------------------------------------------------------- clock
\* The clock runs for one second, the shortest limit of LimitInputs.
MaxNow == TicksPerSecond

\* Time is read only as now - started_at of a running session, so the clock
\* is advanced only while a session is running.
Tick ==
  /\ ACTIVE_SESSIONS # << >>
  /\ now < MaxNow
  /\ now' = now + 1
  /\ UNCHANGED <<ai_client, total_xp, ACTIVE_SESSIONS, battles, started, resp>>
  /\ UNCHANGED elsewhere

\* ------------------------------------------------------------ specification
\* total_xp of a freshly registered user with some XP earned elsewhere
InitXp == [u \in Names |-> 50]

\* The state after import, with the usernames of `users` registered.
InitWith(users) ==
  /\ ai_client \in BOOLEAN
  /\ total_xp = [u \in users |-> InitXp[u]]
  /\ ACTIVE_SESSIONS = << >>
  /\ battles = << >>
  /\ now = 0
  /\ started = [u \in Names |-> 0]
  /\ resp = [op |-> "none", user |-> "", code |-> 0, body |-> [kind |-> "none"]]
  /\ reflections = << >>
  /\ progress = [u \in users |-> << >>]
  /\ calls = {}

\* Every request the clients can send, with start's fields and the outcome
\* of db.commit() drawn from the given sets.  Requests of the session routes
\* come from registered users.
Requests(totals, limits, commits) ==
  \/ \E user \in Names, total_questions \in totals :
        \* a rejected start reads neither the other fields nor the API
        /\ IF StartOutcome(user, total_questions) # 200
           THEN start_boss_battle(user, <<>>, total_questions, <<>>,
                                  [kind |-> "no_client", questions |-> <<>>])
           ELSE \E difficulty \in Difficulties, time_limit_seconds \in limits,
                   api \in ApiOutcomes(ai_client) :
                   start_boss_battle(user, difficulty, total_questions, time_limit_seconds, api)
        /\ UNCHANGED elsewhere
  \/ \E user \in DOMAIN total_xp, commit_ok \in commits :
        get_current_question(user, commit_ok) /\ UNCHANGED elsewhere
  \/ \E username \in Opt(DOMAIN total_xp), choice \in Opt(Choices), commit_ok \in commits :
        submit_answer(username, choice, commit_ok) /\ UNCHANGED elsewhere
  \/ \E user \in DOMAIN total_xp, commit_ok \in commits :
        get_status(user, commit_ok) /\ UNCHANGED elsewhere
  \/ \E user \in DOMAIN total_xp, commit_ok \in commits :
        forfeit(user, commit_ok) /\ UNCHANGED elsewhere

\* One registered user ("bob" is an unknown username), every input.
Init == InitWith({"alice"})

Next == Requests(TotalInputs, LimitInputs, BOOLEAN) \/ Tick

Spec == Init /\ [][Next]_vars

\* Two registered users playing at once: full-length quizzes with the
\* default time limit, a database that commits, and no time passing.
InitDuo == InitWith(Names)

NextDuo == Requests({<<6>>}, {<<>>}, {TRUE})

SpecDuo == InitDuo /\ [][NextDuo]_vars

\* The reflection routes alone, one registered user, every API outcome.
NextReflect == ReflectionRequests(ApiKinds, XpKinds)

SpecReflect == Init /\ [][NextReflect]_vars

\* The boss-battle routes and the reflection routes served side by side:
\* one registered user, quizzes of one question with a limit of one second,
\* a database that commits, API answers without xp_reward.
NextApp ==
  \/ Requests({<<0>>, <<1>>}, {<<1>>}, {TRUE})
  \/ Tick
  \/ ReflectionRequests(ApiKinds, {"missing"})

SpecApp == Init /\ [][NextApp]_vars

\* Forfeit calls racing on worker threads.  The other requests are served
\* while no forfeit is in flight: quizzes of up to five questions, default
\* time limit, a database that commits.
Quiet == calls = {}

NextRace ==
  \/ Quiet /\ Requests({<<6>>}, {<<>>}, {TRUE})
  \/ \E id \in Threads, user \in DOMAIN total_xp : ForfeitGet(id, user)
  \/ \E c \in calls : EndRead(c)
  \/ \E c \in calls : EndSelect(c)
  \/ \E c \in calls : EndCommit(c)
  \/ \E c \in calls : EndPop(c)

SpecRace == Init /\ [][NextRace]_vars

\* The dashboard of a registered user with any Progress rows and with or
\* without XP.
InitHome ==
  /\ ai_client = FALSE
  /\ total_xp \in [{"alice"} -> {0, 50}]
  /\ progress \in [{"alice"} -> SeqsUpTo(ProgressRows, MaxSessions)]
  /\ ACTIVE_SESSIONS = << >>
  /\ battles = << >>
  /\ now = 0
  /\ started = [u \in Names |-> 0]
  /\ resp = [op |-> "none", user |-> "", code |-> 0, body |-> [kind |-> "none"]]
  /\ reflections = << >>
  /\ calls = {}

NextHome == \E user \in Names : get_dashboard(user)

SpecHome == InitHome /\ [][NextHome]_vars

\* =================================================================== claims
SessionOps == {"question", "answer", "status", "forfeit"}

\* The step is a request (the clock stands still) answered for user u by op.
RequestBy(u, ops) == now' = now /\ resp'.user = u /\ resp'.op \in ops

\* The response is the result dict of _end_session.
IsEnded(r) == r.code = 200 /\ r.body.kind = "ended"

\* The request failed because db.commit() raised inside _end_session.
CommitFailed(r) == r.code = 500 /\ r.body.detail = "commit failed"

\* The session's time limit has elapsed at time t.
LimitElapsed(sess, t) == t - sess.started_at >= sess.time_limit_seconds * TicksPerSecond

NumRecords(u) == Cardinality({i \in 1..Len(battles) : battles[i].user = u})

\* C1: whenever a session leaves the active-session map, the step is the
\* terminal transition of a question, answer, status or forfeit request with
\* one of the four statuses; it appends exactly one BossBattle row carrying
\* the session's final score and xp_reward = 20 * score, and adds exactly
\* that xp_reward to the user's total_xp.
C1_EndWritesRecordAndXp ==
  [][\A u \in Names :
      (u \in DOMAIN ACTIVE_SESSIONS /\ u \notin DOMAIN ACTIVE_SESSIONS') =>
        /\ RequestBy(u, SessionOps)
        /\ IsEnded(resp')
        /\ resp'.body.status \in Statuses
        /\ Len(battles') = Len(battles) + 1
        /\ SubSeq(battles', 1, Len(battles)) = battles
        /\ LET rec == battles'[Len(battles')]
               sess == ACTIVE_SESSIONS[u]
           IN  /\ rec.user = u
               /\ rec.score = resp'.body.score
               /\ rec.score \in {sess.score, sess.score + 1}
               /\ resp'.op # "answer" => rec.score = sess.score
               /\ rec.xp_reward = 20 * rec.score
               /\ resp'.body.xp_reward = rec.xp_reward
               /\ total_xp' = [total_xp EXCEPT ![u] = @ + rec.xp_reward]
     ]_vars

\* C1 witness: a second session has just ended by timeout with a positive
\* score, and both rows are stored.
C1_Witness ==
  /\ IsEnded(resp)
  /\ resp.body.status = "timeout"
  /\ resp.body.score >= 1
  /\ Len(battles) = 2
  /\ total_xp[resp.user] = InitXp[resp.user] + battles[1].xp_reward + battles[2].xp_reward

\* C2 (as claimed): once a terminating request has returned or failed, the
\* user has no entry in the active-session map, whether or not the row was
\* written.
C2_DiscardedRegardless ==
  (IsEnded(resp) \/ CommitFailed(resp)) => resp.user \notin DOMAIN ACTIVE_SESSIONS

\* C3 (as claimed): once the time limit of a user's session has elapsed, the
\* user's next question, answer, status, forfeit or start request ends the
\* session with status timeout, with the score and lives it had.
C3_TimeoutOnNextAccess ==
  [][\A u \in DOMAIN ACTIVE_SESSIONS :
      (LimitElapsed(ACTIVE_SESSIONS[u], now) /\ RequestBy(u, SessionOps \cup {"start"})) =>
        /\ IsEnded(resp')
        /\ resp'.body.status = "timeout"
        /\ resp'.body.score = ACTIVE_SESSIONS[u].score
        /\ resp'.body.lives_remaining = ACTIVE_SESSIONS[u].lives
        /\ u \notin DOMAIN ACTIVE_SESSIONS'
     ]_vars

\* Sessions started and not yet ended, per user.
Live(u) == started[u] - NumRecords(u)

\* C4 (as claimed): every start for a user who has an active session is
\* rejected with 409 and leaves the session map as it was.
C4_StartConflictIs409 ==
  [][\A u \in DOMAIN ACTIVE_SESSIONS :
      RequestBy(u, {"start"}) =>
        resp'.code = 409 /\ ACTIVE_SESSIONS' = ACTIVE_SESSIONS
     ]_vars

\* The start request of user u with total_questions tq and every other
\* field left out, when no OpenAI client is configured.
PlainStart(u, tq) ==
  start_boss_battle(u, <<>>, tq, <<>>, [kind |-> "no_client", questions |-> <<>>])

\* C4 (amended): a start for a user who has an active session is always
\* rejected and never replaces the session: with 409 when total_questions
\* is an integer >= 1, with 400 when it is below 1 (that check runs first),
\* with 500 when it is null.  A start for a registered user without a
\* session whose total_questions is an integer >= 1 returns 200 and creates
\* the session.  A user never has more than one live session.
C4_StartConflictRejected ==
  [][/\ \A u \in Names, tq \in TotalInputs :
         (RequestBy(u, {"start"}) /\ PlainStart(u, tq)) =>
           /\ u \in DOMAIN ACTIVE_SESSIONS =>
                /\ ACTIVE_SESSIONS' = ACTIVE_SESSIONS
                /\ UNCHANGED <<battles, total_xp, started>>
                /\ resp'.code = (IF tq = <<>> THEN 500 ELSE IF tq[1] < 1 THEN 400 ELSE 409)
           /\ (u \in DOMAIN total_xp /\ u \notin DOMAIN ACTIVE_SESSIONS
                 /\ tq # <<>> /\ tq[1] >= 1) =>
                /\ resp'.code = 200
                /\ DOMAIN ACTIVE_SESSIONS' = DOMAIN ACTIVE_SESSIONS \cup {u}
     /\ \A u \in Names :
         RequestBy(u, {"start"}) =>
           /\ resp'.code = 409 => (u \in DOMAIN ACTIVE_SESSIONS /\ ACTIVE_SESSIONS' = ACTIVE_SESSIONS)
           /\ resp'.code = 200 => (u \notin DOMAIN ACTIVE_SESSIONS /\ u \in DOMAIN ACTIVE_SESSIONS')
           /\ resp'.code \in {200, 400, 404, 409, 500}
     /\ \A v \in Names : Live(v)' = (IF v \in DOMAIN ACTIVE_SESSIONS' THEN 1 ELSE 0)
    ]_vars

\* C4 witness: a start with total_questions < 1 for a user who holds an
\* active session was rejected with 400, and the session is still there.
C4_Witness ==
  /\ resp.op = "start"
  /\ resp.code = 400
  /\ resp.user \in DOMAIN ACTIVE_SESSIONS
  /\ ACTIVE_SESSIONS[resp.user].index > 0

\* C5: every active session and every BossBattle row belongs to a username
\* of the user table, and a start for an unknown username is answered 404
\* and leaves that username without a session.
C5_BattleRequiresUser ==
  /\ \A u \in DOMAIN ACTIVE_SESSIONS : u \in DOMAIN total_xp
  /\ \A i \in 1..Len(battles) : battles[i].user \in DOMAIN total_xp
  /\ \A u \in Names \ DOMAIN total_xp : started[u] = 0
  /\ (resp.op = "start" /\ resp.user \notin DOMAIN total_xp) =>
       (resp.code = 404 /\ resp.user \notin DOMAIN ACTIVE_SESSIONS)

\* C5 witness: an unknown username was refused a start while a registered
\* user plays and a row is stored.
C5_Witness ==
  /\ resp.op = "start"
  /\ resp.user \notin DOMAIN total_xp
  /\ resp.code = 404
  /\ ACTIVE_SESSIONS # << >>
  /\ battles # << >>

\* C6 (as claimed): no session with zero lives is left in the active-session
\* map, and an answer that ends a session with no lives left reports
\* out_of_lives, also on the final question.
C6_NoLivesEndsSession ==
  /\ \A u \in DOMAIN ACTIVE_SESSIONS : ACTIVE_SESSIONS[u].lives >= 1
  /\ (resp.op = "answer" /\ IsEnded(resp) /\ resp.body.lives_remaining <= 0) =>
       resp.body.status = "out_of_lives"

\* C7: an answer request that is accepted (answered 200) for a session that
\* has not timed out and has a current question advances index by exactly 1;
\* a choice equal to the current question's answer_idx adds 1 to score and
\* leaves lives alone, any other choice takes 1 from lives and leaves score
\* alone; no other field of the session changes, and the sessions of the
\* other users are untouched.  When that answer ends the session, the result
\* carries the score and lives so computed.
C7_AnswerScoresOnce ==
  [][\A u \in DOMAIN ACTIVE_SESSIONS, c \in Choices :
      ( /\ RequestBy(u, {"answer"})
        /\ resp'.code = 200
        /\ _time_remaining(ACTIVE_SESSIONS[u], now) > 0
        /\ ACTIVE_SESSIONS[u].index < ACTIVE_SESSIONS[u].total_questions
        /\ \E commit_ok \in BOOLEAN : submit_answer(<<u>>, <<c>>, commit_ok) ) =>
        LET s == ACTIVE_SESSIONS[u]
            right == c = s.questions[s.index + 1].answer_idx
            score == IF right THEN s.score + 1 ELSE s.score
            lives == IF right THEN s.lives ELSE s.lives - 1
        IN  /\ IF IsEnded(resp')
               THEN /\ u \notin DOMAIN ACTIVE_SESSIONS'
                    /\ resp'.body.score = score
                    /\ resp'.body.lives_remaining = lives
                    /\ resp'.body.total_questions = s.total_questions
               ELSE /\ u \in DOMAIN ACTIVE_SESSIONS'
                    /\ ACTIVE_SESSIONS'[u] =
                         [s EXCEPT !.index = s.index + 1, !.score = score, !.lives = lives]
                    /\ resp'.body.correct = right
            /\ \A v \in DOMAIN ACTIVE_SESSIONS \ {u} :
                 v \in DOMAIN ACTIVE_SESSIONS' /\ ACTIVE_SESSIONS'[v] = ACTIVE_SESSIONS[v]
            /\ DOMAIN ACTIVE_SESSIONS' \subseteq DOMAIN ACTIVE_SESSIONS
     ]_vars

\* C7 witness: two users are in the middle of their sessions and the last
\* request was a wrong answer that cost its user a life.
C7_Witness ==
  /\ resp.op = "answer"
  /\ resp.code = 200
  /\ resp.body.kind = "answer"
  /\ ~resp.body.correct
  /\ resp.body.lives = 2
  /\ \E v \in DOMAIN ACTIVE_SESSIONS \ {resp.user} : ACTIVE_SESSIONS[v].index > 0

\* Every session user u has started has ended with a stored row.
AllEnded(u) == started[u] >= 1 /\ NumRecords(u) = started[u]

\* A successful start leaves user u with a session that holds nothing of an
\* earlier one.
FreshSession(u) ==
  /\ u \in DOMAIN ACTIVE_SESSIONS'
  /\ ACTIVE_SESSIONS'[u].lives = 3
  /\ ACTIVE_SESSIONS'[u].score = 0
  /\ ACTIVE_SESSIONS'[u].index = 0
  /\ ACTIVE_SESSIONS'[u].started_at = now

\* C8 (as claimed): after a user's session has ended, every question,
\* answer, status or forfeit request for that user is answered 404 and
\* writes nothing, until a start creates a fresh session.
C8_EndedSessionAlways404 ==
  [][\A u \in Names :
      /\ (AllEnded(u) /\ RequestBy(u, SessionOps)) =>
           /\ resp'.code = 404
           /\ UNCHANGED <<battles, total_xp, ACTIVE_SESSIONS>>
      /\ (RequestBy(u, {"start"}) /\ resp'.code = 200) => FreshSession(u)
     ]_vars

\* C8 (amended): after a user's session has ended, every question, status
\* or forfeit request and every answer request carrying a choice is answered
\* 404 for that user, an answer request without a choice is answered 400,
\* and none of them writes a row, credits XP or brings a session back, until
\* a start creates a session with 3 lives, score 0, index 0 and a new start
\* time.
C8_EndedSessionNotRecovered ==
  [][\A u \in Names :
      /\ (AllEnded(u) /\ RequestBy(u, SessionOps)) =>
           /\ \/ resp'.code = 404
              \/ /\ resp'.op = "answer"
                 /\ resp'.code = 400
                 /\ resp'.body.detail = "choice_idx is required."
           /\ UNCHANGED <<battles, total_xp, ACTIVE_SESSIONS>>
      /\ (RequestBy(u, {"start"}) /\ resp'.code = 200) => FreshSession(u)
     ]_vars

\* C8 witness: both of a user's sessions have ended, the first with a
\* positive score, and a forfeit sent afterwards was answered 404.
C8_Witness ==
  /\ resp.op = "forfeit"
  /\ resp.code = 404
  /\ AllEnded(resp.user)
  /\ started[resp.user] = 2
  /\ battles[1].score >= 1

\* C9 (as claimed): a successful start creates a session with 3 lives,
\* score 0, index 0 and total_questions = min(requested, 5) whose question
\* list holds exactly total_questions questions, from the static bank or
\* from the API; a registered user's start with total_questions below 1 is
\* answered 400 and creates no session.
C9_StartCreatesFullSession ==
  [][\A u \in Names, tq \in TotalInputs \ {<<>>} :
      \A d \in Difficulties, tl \in LimitInputs, api \in ApiOutcomes(ai_client) :
        (RequestBy(u, {"start"}) /\ start_boss_battle(u, d, tq, tl, api)) =>
          /\ resp'.code = 200 =>
               /\ FreshSession(u)
               /\ ACTIVE_SESSIONS'[u].total_questions = Min(tq[1], 5)
               /\ Len(ACTIVE_SESSIONS'[u].questions) = ACTIVE_SESSIONS'[u].total_questions
          /\ (u \in DOMAIN total_xp /\ tq[1] < 1) =>
               (resp'.code = 400 /\ ACTIVE_SESSIONS' = ACTIVE_SESSIONS)
     ]_vars

\* C10: the BossBattle table and every total_xp change only in a step that
\* is the terminal transition of some user's session; start, question,
\* status and answer requests that leave the session in place write nothing.
C10_OnlyEndingPersists ==
  [][(battles' # battles \/ total_xp' # total_xp) =>
       \E u \in DOMAIN ACTIVE_SESSIONS :
         /\ u \notin DOMAIN ACTIVE_SESSIONS'
         /\ RequestBy(u, SessionOps)
         /\ IsEnded(resp')
     ]_vars

\* C10 witness: a session is two correct answers in, and no row has been
\* written nor any XP credited.
C10_Witness ==
  /\ resp.op = "answer"
  /\ resp.code = 200
  /\ resp.body.kind = "answer"
  /\ resp.body.score = 2
  /\ battles = << >>
  /\ \A u \in DOMAIN total_xp : total_xp[u] = InitXp[u]

\* C11: every row of the TextAIReflection table has an xp_reward in 5..25,
\* whatever the API returned for xp_reward and also when the heuristic
\* fallback is used; a row made by the fallback carries 10.
C11_ReflectionXpClamped ==
  \A i \in 1..Len(reflections) :
    /\ reflections[i].xp_reward \in 5..25
    /\ reflections[i].ai_feedback = "heuristic" => reflections[i].xp_reward = 10

\* C11 witness: add_reflection has just stored a row built from an API
\* answer, with xp_reward 25.
C11_Witness ==
  /\ resp.op = "add_reflection"
  /\ resp.code = 200
  /\ resp.body.row.xp_reward = 25
  /\ resp.body.row.ai_feedback = "api"
  /\ reflections = <<resp.body.row>>

\* The API call failed: it raised, its content is not a JSON object, or the
\* "feedback" it carries is not a string.
FailedFeedback ==
  {o \in FeedbackOutcomes(TRUE) : o.kind \in {"error", "not_object"} \/ o.texts = "object"}

\* The API call failed: it raised, or no item of its "questions" is usable.
FailedQuestions ==
  {o \in ApiOutcomes(TRUE) : o.kind = "error" \/ Clean(o.questions, 1, << >>) = << >>}

\* C12 (as claimed): when the API call fails, add_reflection for a registered
\* user with a text still returns 200 and stores a row with the heuristic
\* feedback, and start for a registered user without a session still returns
\* 200 and creates a session with the questions of the static bank.
C12_ApiFailureSwallowed ==
  [][\A u \in DOMAIN total_xp :
      /\ \A api \in FailedFeedback, stored \in BOOLEAN :
           (RequestBy(u, {"add_reflection"}) /\ client
              /\ add_reflection(<<u>>, <<"studied">>, api, stored)) =>
             /\ resp'.code = 200
             /\ Len(reflections') = Len(reflections) + 1
             /\ reflections'[Len(reflections')].user = u
             /\ reflections'[Len(reflections')].ai_feedback = "heuristic"
      /\ \A api \in FailedQuestions, tq \in {<<1>>, <<6>>}, tl \in LimitInputs :
           (RequestBy(u, {"start"}) /\ ai_client /\ u \notin DOMAIN ACTIVE_SESSIONS
              /\ start_boss_battle(u, <<"">>, tq, tl, api)) =>
             /\ resp'.code = 200
             /\ u \in DOMAIN ACTIVE_SESSIONS'
             /\ ACTIVE_SESSIONS'[u].questions = Take(_QUESTIONS, TotalFor(tq[1]))
     ]_vars

\* C13: a request answered 400, 404 or 409 leaves the active-session map,
\* the BossBattle table, the reflection table and every total_xp exactly as
\* they were; this covers start, question, answer, status, forfeit,
\* add_reflection, list_reflections, get_reflection and delete_reflection.
C13_RejectedChangesNothing ==
  [][resp'.code \in {400, 404, 409} =>
       UNCHANGED <<ACTIVE_SESSIONS, battles, reflections, total_xp>>
    ]_vars

\* C13 witness: an answer without a choice was answered 400 for a user whose
\* session has timed out, the session is still in the map, and a reflection
\* is stored.
C13_Witness ==
  /\ resp.op = "answer"
  /\ resp.code = 400
  /\ resp.user \in DOMAIN ACTIVE_SESSIONS
  /\ LimitElapsed(ACTIVE_SESSIONS[resp.user], now)
  /\ reflections # << >>
  /\ battles # << >>

\* C14 (as claimed): every session in the active-session map has
\* 1 <= lives <= 3, 0 <= index < total_questions, 0 <= score <= index and
\* score + (3 - lives) = index.
C14_SessionInvariants ==
  \A u \in DOMAIN ACTIVE_SESSIONS :
    LET sess == ACTIVE_SESSIONS[u] IN
    /\ sess.lives \in 1..3
    /\ sess.index >= 0
    /\ sess.index < sess.total_questions
    /\ sess.score >= 0
    /\ sess.score <= sess.index
    /\ sess.score + (3 - sess.lives) = sess.index

RECURSIVE XpOfRecords(_, _)
XpOfRecords(rows, u) ==
  IF rows = << >> THEN 0
  ELSE (IF Head(rows).user = u THEN Head(rows).xp_reward ELSE 0) + XpOfRecords(Tail(rows), u)

\* C15 (as claimed): also when requests for one user interleave, the user has
\* no more BossBattle rows than sessions started, and total_xp is the initial
\* value plus the xp_reward of the user's rows.
C15_OneRecordPerSession ==
  \A u \in DOMAIN total_xp :
    /\ NumRecords(u) <= started[u]
    /\ total_xp[u] = InitXp[u] + XpOfRecords(battles, u)

\* C16 (as claimed): a session of n questions is gone from the map once n
\* answers were accepted (each accepted answer advances index by one, so no
\* active session has index >= total_questions), and no request reads a
\* question at an index outside the session's question list.
C16_AnswersEndSession ==
  /\ \A u \in DOMAIN ACTIVE_SESSIONS :
       /\ ACTIVE_SESSIONS[u].index < ACTIVE_SESSIONS[u].total_questions
       /\ ACTIVE_SESSIONS[u].index < Len(ACTIVE_SESSIONS[u].questions)
  /\ resp.code = 500 => resp.body.detail # "IndexError"

\* The calendar days on which one of the rows falls.
DaysStudied(rows) ==
  { d \in 0..MaxSlot : \E i \in 1..Len(rows) :
      d * SlotsPerDay <= rows[i].date /\ rows[i].date < (d + 1) * SlotsPerDay }

\* The length of the run of consecutive calendar days ending at the latest
\* day of the set; 0 for no day.
RunEndingAtLast(days) ==
  IF days = {} THEN 0
  ELSE LET last == CHOOSE x \in days : \A y \in days : y <= x
       IN  CHOOSE k \in 1..Cardinality(days) :
             /\ \A j \in 0..(k - 1) : (last - j) \in days
             /\ (last - k) \notin days

\* C17: calculate_streak returns 0 for no study sessions and otherwise the
\* length of the run of consecutive calendar days ending at the day of the
\* most recent session, several sessions of one day counted once; the
\* dashboard reports that value as current_streak_days.
C17_StreakIsRunOfDays ==
  /\ calculate_streak(<< >>) = 0
  /\ \A u \in DOMAIN progress :
       calculate_streak(progress[u]) = RunEndingAtLast(DaysStudied(progress[u]))
  /\ (resp.op = "dashboard" /\ resp.code = 200) =>
       /\ resp.body.current_streak_days = RunEndingAtLast(DaysStudied(progress[resp.user]))
       /\ resp.body.total_sessions = Len(progress[resp.user])

\* C17 witness: the dashboard reports a streak of 2 days for three sessions
\* of which two fall on one day.
C17_Witness ==
  /\ resp.op = "dashboard"
  /\ resp.code = 200
  /\ resp.body.current_streak_days = 2
  /\ Len(progress[resp.user]) = 3
  /\ Cardinality(DaysStudied(progress[resp.user])) = 2
  /\ progress[resp.user][1].date # progress[resp.user][2].date
  /\ progress[resp.user][2].date # progress[resp.user][3].date
  /\ progress[resp.user][1].date # progress[resp.user][3].date

====
